---- MODULE Spec2Model ----
(***************************************************************************)
(* Packet framing of russh's cipher module (Source/cipher/mod.rs):         *)
(* SealingKey::write serialises one payload into the outbound SSHBuffer,   *)
(* read assembles and opens one packet from a stream into the inbound      *)
(* SSHBuffer.  The two codecs behind the OpeningKey / SealingKey traits    *)
(* are "clear" (the no-op codec) and "aead" (an abstract keyed codec whose *)
(* keystream and tag depend on the sequence number).                       *)
(***************************************************************************)
EXTENDS Integers, Sequences, FiniteSets, TLC

\* ------------------------------------------------------------------ bounds
\* writes, injected frames and transport errors of one run, together
MaxEvents == 2
\* the largest body (declared length and tag) the reader is made to await
MaxTarget == 24

\* the payloads written, and the plaintexts a third party seals
PayloadLens == {0, 1}
PayloadBytes == {1, 2}
InjLens == {0, 1, 2}
InjBytes == {0, 1, 2}

\* --------------------------------------------------------------- constants
PACKET_LENGTH_LEN == 4
MINIMUM_PACKET_LEN == 16
PADDING_LENGTH_LEN == 1
U16 == 65536
U8Max == 255

\* a u32 is kept as its two 16-bit halves << high, low >>
U32Zero == << 0, 0 >>
U32Max == << U16 - 1, U16 - 1 >>

Codecs == {"clear", "aead"}
\* the counters start two packets before the wrap, so that a run crosses it
StartSeqns == {<< U16 - 1, U16 - 2 >>}
GuessSeqns == {U32Zero, U32Max}

VARIABLES
    codec,      \* which pair of codecs the connection uses
    start,      \* both counters when the model starts
    wbuf,       \* outbound SSHBuffer: buffer, len, bytes, seqn
    wstatus,    \* "ok", or the assert! of write that panicked
    nwrites,    \* history: write calls that returned
    sealed,     \* history: the arguments of the last seal call
    stream,     \* bytes on the transport, not yet consumed by read
    ninject,    \* history: frames put on the transport by a third party
    nio,        \* history: read calls abandoned so far (error or cancellation)
    inflight,   \* history: payloads written and not yet matched by a read
    clean,      \* history: the stream holds only what write produced, and no
                \* read call was abandoned
    rbuf,       \* inbound SSHBuffer: buffer, len, bytes, seqn
    pc,         \* where the read future is: "idle", "len", "body"
    lenbuf,     \* read's local `len` array: the bytes filled so far
    filled,     \* body bytes the second read_exact has filled so far
    rres,       \* outcome of the last read call
    nok,        \* history: read calls that returned Ok
    opened,     \* history: the open call of the current/last read call
    consumed,   \* history: stream bytes the current/last read call took
    fresh,      \* history: the current/last read call found buffer.len == 0
    susp,       \* history: which read_exact of the call was left pending
    expected,   \* history: the written payload the last Ok read should match
    dpl,        \* history: decrypt_packet_length calls, and the last one's seqn
    lost,       \* history: body bytes taken by the last abandoned read call
    build,      \* the cargo feature the crate was built with
    ciphers,    \* the Lazy cell CIPHERS: not yet built, or the map
    got         \* history: the last lookup in CIPHERS and what it found

vars == << codec, start, wbuf, wstatus, nwrites, sealed, stream,
           ninject, nio, inflight, clean, rbuf, pc, lenbuf, filled, rres, nok,
           opened, consumed, fresh, susp, expected, dpl, lost, build, ciphers,
           got >>

wvars == << wbuf, wstatus, nwrites, sealed >>
rvars == << rbuf, pc, lenbuf, filled, rres, nok, opened, consumed, fresh,
            susp, expected, dpl, lost >>

regvars == << build, ciphers, got >>

Events == nwrites + ninject + nio

\* ------------------------------------------------------------ byte helpers
RECURSIVE Sum(_)
Sum(s) ==
    IF Len(s) = 0 THEN 0
    ELSE IF Len(s) = 1 THEN s[1]
    ELSE LET h == Len(s) \div 2
         IN  Sum(SubSeq(s, 1, h)) + Sum(SubSeq(s, h + 1, Len(s)))

Zeros(n) == [i \in 1..n |-> 0]

Fill(n, b) == [i \in 1..n |-> b]

Min(a, b) == IF a < b THEN a ELSE b

\* CryptoVec::push_u32_be of `packet_length as u32`
PushU32BE(n) ==
    << (n \div 16777216) % 256, (n \div 65536) % 256,
       (n \div 256) % 256, n % 256 >>

\* BigEndian::read_u32
ReadU32BE(b) == b[1] * 16777216 + b[2] * 65536 + b[3] * 256 + b[4]

\* CryptoVec::resize: truncates, or grows with zero bytes
Resize(buf, n) ==
    IF n <= Len(buf) THEN SubSeq(buf, 1, n) ELSE buf \o Zeros(n - Len(buf))

\* an increment that stops at u32::MAX
SaturatingAdd1(s) ==
    IF s = U32Max THEN s
    ELSE IF s[2] = U16 - 1 THEN << s[1] + 1, 0 >> ELSE << s[1], s[2] + 1 >>

\* buffer.seqn += Wrapping(1)
WrapAdd1(s) ==
    IF s[2] = U16 - 1 THEN << (s[1] + 1) % U16, 0 >> ELSE << s[1], s[2] + 1 >>

\* n > std::u32::MAX as usize
ExceedsU32(n) == n \div U16 >= U16

\* the assertion on padding_length is missing
ExceedsU8Never(padding_length) == FALSE

\* padding_length > std::u8::MAX as usize
ExceedsU8(padding_length) == padding_length > U8Max

\* ------------------------------------------------------------ the registry
CLEAR == "clear"
AES_128_CTR == "aes128-ctr"
AES_192_CTR == "aes192-ctr"
AES_256_CTR == "aes256-ctr"
AES_256_GCM == "aes256-gcm@openssh.com"
CHACHA20_POLY1305 == "chacha20-poly1305@openssh.com"
NONE == "none"

\* the feature that selects the cipher implementations: rs-crypto, or openssl
\* without rs-crypto
Builds == {"rs-crypto", "openssl"}

\* HashMap::new()
EmptyMap == [k \in {} |-> ""]

\* HashMap::insert
Insert(h, k, v) == [x \in DOMAIN h \cup {k} |-> IF x = k THEN v ELSE h[x]]

\* HashMap::get: the descriptor, or None
Get(h, k) ==
    IF k \in DOMAIN h THEN [hit |-> TRUE, desc |-> h[k]]
    ELSE [hit |-> FALSE, desc |-> ""]

\* the closure without its second insert
BuildCiphersWithoutNone(feature) ==
    LET h1 == Insert(EmptyMap, CLEAR, "_CLEAR")
        h3 == Insert(h1, AES_128_CTR, "_AES_128_CTR")
        h4 == Insert(h3, AES_192_CTR, "_AES_192_CTR")
        h5 == Insert(h4, AES_256_CTR, "_AES_256_CTR")
        h6 == IF feature = "rs-crypto"
              THEN Insert(h5, AES_256_GCM, "_AES_256_GCM") ELSE h5
    IN  IF feature = "rs-crypto"
        THEN Insert(h6, CHACHA20_POLY1305, "_CHACHA20_POLY1305") ELSE h6

\* the closure of Lazy::new: descriptors are named by their statics
BuildCiphers(feature) ==
    LET h1 == Insert(EmptyMap, CLEAR, "_CLEAR")
        h2 == Insert(h1, NONE, "_CLEAR")
        h3 == Insert(h2, AES_128_CTR, "_AES_128_CTR")
        h4 == Insert(h3, AES_192_CTR, "_AES_192_CTR")
        h5 == Insert(h4, AES_256_CTR, "_AES_256_CTR")
        h6 == IF feature = "rs-crypto"
              THEN Insert(h5, AES_256_GCM, "_AES_256_GCM") ELSE h5
    IN  IF feature = "rs-crypto"
        THEN Insert(h6, CHACHA20_POLY1305, "_CHACHA20_POLY1305") ELSE h6

Unbuilt == [built |-> FALSE, map |-> EmptyMap]

\* Lazy: the closure runs on the first dereference only
Force(cell, feature) ==
    IF cell.built THEN cell ELSE [built |-> TRUE, map |-> BuildCiphers(feature)]

NoLookup == [called |-> FALSE, name |-> "", hit |-> FALSE, desc |-> ""]

\* the names a caller asks for: the seven constants and one that is not
\* registered
LookupNames ==
    {CLEAR, AES_128_CTR, AES_192_CTR, AES_256_CTR, AES_256_GCM,
     CHACHA20_POLY1305, NONE, "3des-cbc"}

\* ------------------------------------------------------------- the codecs
\* OpeningKey::tag_len / SealingKey::tag_len
TagLen(c) == IF c = "clear" THEN 0 ELSE 1

\* the aead codec's keystream byte and tag for a sequence number
Key(seqn) == 1 + (seqn[2] % 2)

EncByte(b, k) == (b + k) % 256

DecByte(b, k) == (b + 256 - k) % 256

Mac(seqn, region) == (Sum(region) + Len(region) + 5 * Key(seqn)) % 256

\* the aead codec encrypts the low byte of the length field and the body
Encrypt(region, k) ==
    [i \in 1..Len(region) |->
        IF i >= PACKET_LENGTH_LEN THEN EncByte(region[i], k) ELSE region[i]]

Decrypt(region, k) ==
    [i \in 1..Len(region) |->
        IF i >= PACKET_LENGTH_LEN THEN DecByte(region[i], k) ELSE region[i]]

\* SealingKey::padding_length of the clear codec: blocks of 8, at least 4
ClearPadding(n) ==
    LET p == 8 - ((PACKET_LENGTH_LEN + PADDING_LENGTH_LEN + n) % 8)
    IN  IF p < PACKET_LENGTH_LEN THEN p + 8 ELSE p

\* SealingKey::padding_length: the values the policy may return (a usize)
PaddingChoices(c, payload) ==
    IF c = "clear" THEN {ClearPadding(Len(payload))} ELSE {1, U8Max + 1}

\* SealingKey::fill_padding: zero for clear, unpredictable for aead
FillChoices(c) == IF c = "clear" THEN {0} ELSE {7}

\* SealingKey::seal: ciphertext in place of the plaintext region, and the tag
Seal(c, seqn, region) ==
    IF c = "clear"
    THEN [ct |-> region, tag |-> << >>]
    ELSE [ct |-> Encrypt(region, Key(seqn)),
          tag |-> << Mac(seqn, region) >>]

\* OpeningKey::decrypt_packet_length
DecryptPacketLength(c, seqn, len4) ==
    IF c = "clear" THEN len4 ELSE Decrypt(len4, Key(seqn))

\* OpeningKey::open: verifies the tag, decrypts in place, and returns the
\* plaintext after the length field
Open(c, seqn, ct, tag) ==
    IF c = "clear"
    THEN [ok |-> TRUE, buf |-> ct,
          pt |-> SubSeq(ct, PACKET_LENGTH_LEN + 1, Len(ct))]
    ELSE LET dec == Decrypt(ct, Key(seqn))
         IN  IF tag = << Mac(seqn, dec) >>
             THEN [ok |-> TRUE, buf |-> dec,
                   pt |-> SubSeq(dec, PACKET_LENGTH_LEN + 1, Len(dec))]
             ELSE [ok |-> FALSE, buf |-> ct, pt |-> << >>]

\* ------------------------------------------------------------------- Init
NewBuffer(s) == [buffer |-> << >>, len |-> 0, bytes |-> 0, seqn |-> s]

NoSeal == [called |-> FALSE, seqn |-> U32Zero, offset |-> 0, plaintext |-> << >>,
           taglen |-> 0, payload |-> << >>, padding |-> 0]

NoOpen == [called |-> FALSE, seqn |-> U32Zero, ok |-> FALSE, ct |-> << >>,
           tag |-> << >>, pt |-> << >>]

NoSusp == [len |-> FALSE, body |-> FALSE]

NoResult == [kind |-> "none", n |-> 0, err |-> "none"]

NoLength == [calls |-> 0, seqn |-> U32Zero]

\* the two buffers and codecs of a connection, before any call
ConnInit ==
    /\ codec \in Codecs
    /\ start \in StartSeqns
    /\ wbuf = NewBuffer(start)
    /\ wstatus = "ok"
    /\ nwrites = 0
    /\ sealed = NoSeal
    /\ stream = << >>
    /\ ninject = 0
    /\ nio = 0
    /\ inflight = << >>
    /\ clean = TRUE
    /\ rbuf = NewBuffer(start)
    /\ pc = "idle"
    /\ lenbuf = << >>
    /\ filled = 0
    /\ rres = NoResult
    /\ nok = 0
    /\ opened = NoOpen
    /\ consumed = << >>
    /\ fresh = TRUE
    /\ susp = NoSusp
    /\ expected = << >>
    /\ dpl = NoLength
    /\ lost = << >>

\* CIPHERS before its first use
RegistryInit ==
    /\ ciphers = Unbuilt
    /\ got = NoLookup

Init ==
    /\ ConnInit
    /\ RegistryInit
    /\ build = "rs-crypto"

\* ------------------------------------------------------ SealingKey::write
Payloads == UNION {[1..n -> PayloadBytes] : n \in PayloadLens}

\* the padding_length field itself is left out of the length
PacketLengthNoField(payload, padding_length) == Len(payload) + padding_length

\* let packet_length = PADDING_LENGTH_LEN + payload.len() + padding_length
PacketLength(payload, padding_length) ==
    PADDING_LENGTH_LEN + Len(payload) + padding_length

\* the bytes write appends before seal: length field, padding_length byte,
\* payload, padding, and the zeroed room for the tag
Serialize(c, payload, padding_length, fillbyte) ==
    PushU32BE(PacketLength(payload, padding_length))
        \o << padding_length % 256 >>
        \o payload
        \o Fill(padding_length, fillbyte)
        \o Zeros(TagLen(c))

\* split_at_mut(PACKET_LENGTH_LEN + packet_length) of buffer[offset..]
SealSplit(payload, padding_length) ==
    PACKET_LENGTH_LEN + PacketLength(payload, padding_length)

\* seal is handed the counter after the increment
SealSeqnAfterIncrement(b) == WrapAdd1(b.seqn)

\* the sequence number write hands to seal
SealSeqn(b) == b.seqn

\* bytes counts the whole plaintext packet instead of the payload
WriteCountWholePacket(b, payload) ==
    [b EXCEPT !.bytes = b.bytes + PACKET_LENGTH_LEN + PADDING_LENGTH_LEN + Len(payload),
              !.seqn = WrapAdd1(b.seqn)]

\* buffer.bytes += payload.len(); buffer.seqn += Wrapping(1)
WriteCount(b, payload) ==
    [b EXCEPT !.bytes = b.bytes + Len(payload), !.seqn = WrapAdd1(b.seqn)]

Write(payload, padding_length, fillbyte) ==
    /\ wstatus = "ok"
    /\ Events < MaxEvents
    /\ LET packet_length == PacketLength(payload, padding_length)
           offset == Len(wbuf.buffer)
       IN  IF ExceedsU32(packet_length)
           THEN \* assert!(packet_length <= std::u32::MAX as usize)
                /\ wstatus' = "panicked: packet_length"
                /\ UNCHANGED << wbuf, nwrites, sealed, inflight >>
           ELSE IF ExceedsU8(padding_length)
           THEN \* assert!(padding_length <= std::u8::MAX as usize), after
                \* the length field was pushed
                /\ wstatus' = "panicked: padding_length"
                /\ wbuf' = [wbuf EXCEPT
                              !.buffer = wbuf.buffer \o PushU32BE(packet_length)]
                /\ UNCHANGED << nwrites, sealed, inflight >>
           ELSE LET bytes == Serialize(codec, payload, padding_length, fillbyte)
                    split == SealSplit(payload, padding_length)
                    plaintext == SubSeq(bytes, 1, split)
                    s == Seal(codec, SealSeqn(wbuf), plaintext)
                    out == s.ct \o SubSeq(bytes, split + 1, Len(bytes) - Len(s.tag))
                                \o s.tag
                IN  /\ wbuf' = WriteCount([wbuf EXCEPT !.buffer = wbuf.buffer \o out],
                                          payload)
                    /\ sealed' = [called |-> TRUE, seqn |-> SealSeqn(wbuf),
                                  offset |-> offset, plaintext |-> plaintext,
                                  taglen |-> Len(bytes) - split,
                                  payload |-> payload,
                                  padding |-> padding_length]
                    /\ nwrites' = nwrites + 1
                    /\ inflight' = Append(inflight, payload)
                    /\ wstatus' = "ok"
    /\ UNCHANGED regvars
    /\ UNCHANGED << codec, start, stream, ninject, nio, clean >>
    /\ UNCHANGED rvars

\* the transport takes what the outbound buffer holds
Flush ==
    /\ wstatus = "ok"
    /\ wbuf.buffer # << >>
    /\ stream' = stream \o wbuf.buffer
    /\ wbuf' = [wbuf EXCEPT !.buffer = << >>]
    /\ UNCHANGED regvars
    /\ UNCHANGED << codec, start, wstatus, nwrites, sealed, ninject,
                    nio, inflight, clean >>
    /\ UNCHANGED rvars

\* a third party puts a frame of its own on the transport: any plaintext
\* (padding_length byte included) under a declared length, sealed for a
\* guessed sequence number
Inject(plaintext, guess) ==
    /\ Events < MaxEvents
    /\ LET s == Seal(codec, guess, PushU32BE(Len(plaintext)) \o plaintext)
       IN  stream' = stream \o s.ct \o s.tag
    /\ ninject' = ninject + 1
    /\ clean' = FALSE
    /\ UNCHANGED regvars
    /\ UNCHANGED << codec, start, nio, inflight >>
    /\ UNCHANGED wvars
    /\ UNCHANGED rvars

InjPlaintexts == UNION {[1..n -> InjBytes] : n \in InjLens}

\* ------------------------------------------------------------------- read
\* buffer.len = BigEndian::read_u32(&len) as usize + cipher.tag_len()
TargetLen(c, declen) == ReadU32BE(declen) + TagLen(c)

\* the declared length is within what the model's transport can deliver
Deliverable(c, declen) ==
    /\ declen[1] = 0 /\ declen[2] = 0 /\ declen[3] = 0
    /\ declen[4] + TagLen(c) <= MaxTarget

\* one counter shared by the two directions: the reader numbers its packets
\* with the writer's counter
OpenSeqnShared(b) == wbuf.seqn

\* decrypt_packet_length is handed the number of the packet after this one
LenSeqnNext(b) == WrapAdd1(b.seqn)

\* the sequence number read hands to decrypt_packet_length
LenSeqn(b) == b.seqn

\* the sequence number read hands to open
OpenSeqn(b) == b.seqn

\* buffer.buffer.len() - cipher.tag_len()
CiphertextLen(c, b) == Len(b.buffer) - TagLen(c)

\* *plaintext.first().unwrap_or(&0) as usize
PaddingOf(pt) == IF pt = << >> THEN 0 ELSE pt[1]

\* a subtraction that saturates at 0 instead of reporting the underflow
PlaintextEndSaturating(pt) ==
    IF PaddingOf(pt) > Len(pt) THEN 0 ELSE Len(pt) - PaddingOf(pt)

\* plaintext.len().checked_sub(padding_length): -1 stands for None
PlaintextEnd(pt) ==
    IF PaddingOf(pt) > Len(pt) THEN -1 ELSE Len(pt) - PaddingOf(pt)

\* the length-field slot is not counted
UsableLenNoSlot(plaintext_end) == plaintext_end

\* the value read returns and the length the buffer is cut to
UsableLen(plaintext_end) == plaintext_end + PACKET_LENGTH_LEN

\* the target length is not reset
ReadDoneKeepLen(b, buf, plaintext_end) ==
    [b EXCEPT !.seqn = WrapAdd1(b.seqn),
              !.buffer = Resize(buf, UsableLen(plaintext_end))]

\* buffer.seqn += Wrapping(1); buffer.len = 0; buffer.buffer.resize(..)
ReadDone(b, buf, plaintext_end) ==
    [b EXCEPT !.seqn = WrapAdd1(b.seqn), !.len = 0,
              !.buffer = Resize(buf, UsableLen(plaintext_end))]

\* the result of open is not propagated
OutcomeIgnoringOpen(o) ==
    IF PlaintextEnd(o.pt) < 0 THEN "IndexOutOfBounds" ELSE "ok"

\* the two `?` of lines 260 and 267: which error read returns, if any
Outcome(o) ==
    IF ~o.ok THEN "open"
    ELSE IF PlaintextEnd(o.pt) < 0 THEN "IndexOutOfBounds"
    ELSE "ok"

\* an error return that has already counted the packet
OpenFailedAdvancing(b, buf) ==
    [b EXCEPT !.buffer = buf, !.seqn = WrapAdd1(b.seqn)]

\* an error return that gives the packet up: the next call starts a packet
OpenFailedResetting(b, buf) == [b EXCEPT !.buffer = buf, !.len = 0]

\* what open's failure propagates: `?` returns before any later statement
OpenFailed(b, buf) == [b EXCEPT !.buffer = buf]

\* every chunk is stored at the start of the body
PlaceAtStart(buf, at, chunk) ==
    [i \in 1..Len(buf) |->
        IF i > PACKET_LENGTH_LEN /\ i <= PACKET_LENGTH_LEN + Len(chunk)
        THEN chunk[i - PACKET_LENGTH_LEN] ELSE buf[i]]

\* read_exact(&mut buffer.buffer[4..]) stores a chunk behind what it filled
Place(buf, at, chunk) ==
    [i \in 1..Len(buf) |->
        IF i > PACKET_LENGTH_LEN + at /\ i <= PACKET_LENGTH_LEN + at + Len(chunk)
        THEN chunk[i - PACKET_LENGTH_LEN - at] ELSE buf[i]]

\* buffer.buffer.clear(); buffer.buffer.extend(&len); ...; buffer.len = ..;
\* buffer.buffer.resize(buffer.len + 4)
LengthResolved(c, b, len4) ==
    LET target == TargetLen(c, DecryptPacketLength(c, LenSeqn(b), len4))
    IN  [b EXCEPT !.len = target,
                  !.buffer = Resize(len4, target + PACKET_LENGTH_LEN)]

\* lines 254-278: the body is complete in b.buffer
Complete(b) ==
    LET ciphertext_len == CiphertextLen(codec, b)
        ct == SubSeq(b.buffer, 1, ciphertext_len)
        tag == SubSeq(b.buffer, ciphertext_len + 1, Len(b.buffer))
        o == Open(codec, OpenSeqn(b), ct, tag)
        plaintext_end == PlaintextEnd(o.pt)
    IN  /\ pc' = "idle"
        /\ lenbuf' = << >>
        /\ filled' = 0
        /\ opened' = [called |-> TRUE, seqn |-> OpenSeqn(b), ok |-> o.ok,
                      ct |-> ct, tag |-> tag, pt |-> o.pt]
        /\ IF Outcome(o) # "ok"
           THEN /\ rbuf' = OpenFailed(b, o.buf \o tag)
                /\ rres' = [kind |-> "err", n |-> 0, err |-> Outcome(o)]
                /\ UNCHANGED << nok, inflight, expected >>
           ELSE /\ rbuf' = ReadDone(b, o.buf \o tag, plaintext_end)
                /\ rres' = [kind |-> "ok", n |-> UsableLen(plaintext_end),
                            err |-> "none"]
                /\ nok' = nok + 1
                /\ expected' = IF inflight = << >> THEN << >>
                               ELSE << Head(inflight) >>
                /\ inflight' = IF inflight = << >> THEN << >> ELSE Tail(inflight)

\* the call, up to its first read_exact
ReadStart ==
    /\ pc = "idle"
    /\ rres' = [kind |-> "pending", n |-> 0, err |-> "none"]
    /\ opened' = NoOpen
    /\ consumed' = << >>
    /\ fresh' = (rbuf.len = 0)
    /\ susp' = NoSusp
    /\ lenbuf' = << >>
    /\ filled' = 0
    /\ lost' = IF rres.err \in {"io", "cancelled"} THEN lost ELSE << >>
    /\ dpl' = dpl
    /\ IF rbuf.len = 0
       THEN /\ pc' = "len"
            /\ rbuf' = rbuf
       ELSE /\ pc' = "body"
            /\ rbuf' = [rbuf EXCEPT
                          !.buffer = Resize(rbuf.buffer, rbuf.len + PACKET_LENGTH_LEN)]
    /\ UNCHANGED regvars
    /\ UNCHANGED << codec, start, stream, ninject, nio, inflight, clean,
                    nok, expected >>
    /\ UNCHANGED wvars

\* stream.read_exact(&mut len) receives n more bytes
ReadLenPoll(n) ==
    /\ pc = "len"
    /\ n >= 1
    /\ n <= Min(PACKET_LENGTH_LEN - Len(lenbuf), Len(stream))
    /\ LET chunk == SubSeq(stream, 1, n)
           len4 == lenbuf \o chunk
       IN  /\ stream' = SubSeq(stream, n + 1, Len(stream))
           /\ consumed' = consumed \o chunk
           /\ Len(len4) = PACKET_LENGTH_LEN =>
                 Deliverable(codec, DecryptPacketLength(codec, LenSeqn(rbuf), len4))
           /\ IF Len(len4) < PACKET_LENGTH_LEN
              THEN /\ lenbuf' = len4
                   /\ susp' = [susp EXCEPT !.len = TRUE]
                   /\ dpl' = dpl
                   /\ UNCHANGED << rbuf, pc, filled, rres, nok, opened,
                                   inflight, expected >>
              ELSE LET b == LengthResolved(codec, rbuf, len4)
                   IN  /\ susp' = susp
                       /\ dpl' = [calls |-> dpl.calls + 1, seqn |-> LenSeqn(rbuf)]
                       /\ IF b.len = 0
                          THEN Complete(b)
                          ELSE /\ rbuf' = b
                               /\ pc' = "body"
                               /\ lenbuf' = << >>
                               /\ filled' = 0
                               /\ UNCHANGED << rres, nok, opened, inflight,
                                               expected >>
    /\ UNCHANGED regvars
    /\ UNCHANGED << codec, start, ninject, nio, clean, fresh, lost >>
    /\ UNCHANGED wvars

\* stream.read_exact(&mut buffer.buffer[4..]) receives n more bytes
ReadBodyPoll(n) ==
    /\ pc = "body"
    /\ n >= 1
    /\ n <= Min(rbuf.len - filled, Len(stream))
    /\ LET chunk == SubSeq(stream, 1, n)
           b == [rbuf EXCEPT !.buffer = Place(rbuf.buffer, filled, chunk)]
       IN  /\ stream' = SubSeq(stream, n + 1, Len(stream))
           /\ consumed' = consumed \o chunk
           /\ IF filled + n < rbuf.len
              THEN /\ rbuf' = b
                   /\ filled' = filled + n
                   /\ susp' = [susp EXCEPT !.body = TRUE]
                   /\ UNCHANGED << pc, lenbuf, rres, nok, opened, inflight,
                                   expected >>
              ELSE /\ susp' = susp
                   /\ Complete(b)
    /\ UNCHANGED regvars
    /\ UNCHANGED << codec, start, ninject, nio, clean, fresh, dpl, lost >>
    /\ UNCHANGED wvars

\* a call that stops at an await gives the packet up
AbandonedResetting(b) == [b EXCEPT !.len = 0]

\* a call that stops at one of its awaits (`?` on the error, or the future
\* dropped) assigns nothing more to the buffer
Abandoned(b) == b

\* the body bytes a call that stops at one of its awaits has taken
BodyTaken ==
    IF pc # "body" THEN << >>
    ELSE IF fresh THEN SubSeq(consumed, PACKET_LENGTH_LEN + 1, Len(consumed))
    ELSE consumed

\* a read_exact ends with a transport error, which `?` returns
ReadIoError ==
    /\ pc \in {"len", "body"}
    /\ Events < MaxEvents
    /\ nio' = nio + 1
    /\ pc' = "idle"
    /\ rres' = [kind |-> "err", n |-> 0, err |-> "io"]
    /\ lenbuf' = << >>
    /\ filled' = 0
    /\ clean' = FALSE
    /\ lost' = BodyTaken
    /\ UNCHANGED regvars
    /\ rbuf' = Abandoned(rbuf)
    /\ UNCHANGED << codec, start, stream, ninject, inflight,
                    nok, opened, consumed, fresh, susp, expected, dpl >>
    /\ UNCHANGED wvars

\* the caller drops the future while one of its read_exact is pending
ReadCancel ==
    /\ pc \in {"len", "body"}
    /\ Events < MaxEvents
    /\ nio' = nio + 1
    /\ pc' = "idle"
    /\ rres' = [kind |-> "none", n |-> 0, err |-> "cancelled"]
    /\ lenbuf' = << >>
    /\ filled' = 0
    /\ lost' = BodyTaken
    /\ clean' = FALSE
    /\ UNCHANGED regvars
    /\ rbuf' = Abandoned(rbuf)
    /\ UNCHANGED << codec, start, stream, ninject, inflight,
                    nok, opened, consumed, fresh, susp, expected, dpl >>
    /\ UNCHANGED wvars

\* ------------------------------------------------------------------- Next
Next ==
    \/ \E payload \in Payloads :
          \E padding_length \in PaddingChoices(codec, payload) :
             \E fillbyte \in FillChoices(codec) :
                Write(payload, padding_length, fillbyte)
    \/ Flush
    \/ \E plaintext \in InjPlaintexts :
          \E guess \in (IF codec = "clear" THEN {U32Zero} ELSE GuessSeqns) :
             Inject(plaintext, guess)
    \/ ReadStart
    \/ \E n \in 1..PACKET_LENGTH_LEN : ReadLenPoll(n)
    \/ \E n \in 1..Len(stream) : ReadBodyPoll(n)
    \/ ReadIoError
    \/ ReadCancel

Spec == Init /\ [][Next]_vars

\* ------------------------------------------------- the registry in use
\* CIPHERS.get(&name)
Lookup(name) ==
    /\ ciphers' = Force(ciphers, build)
    /\ LET r == Get(ciphers'.map, name)
       IN  got' = [called |-> TRUE, name |-> name, hit |-> r.hit, desc |-> r.desc]
    /\ UNCHANGED << build, codec, start, stream, ninject, nio, inflight, clean >>
    /\ UNCHANGED wvars
    /\ UNCHANGED rvars

InitRegistry ==
    /\ ConnInit
    /\ RegistryInit
    /\ build \in Builds

\* lookups at any time between the writes and reads of a connection
NextRegistry ==
    \/ \E name \in LookupNames : Lookup(name)
    \/ \E payload \in Payloads :
          \E padding_length \in PaddingChoices(codec, payload) :
             \E fillbyte \in FillChoices(codec) :
                Write(payload, padding_length, fillbyte)
    \/ Flush
    \/ ReadStart
    \/ \E n \in 1..PACKET_LENGTH_LEN : ReadLenPoll(n)
    \/ \E n \in 1..Len(stream) : ReadBodyPoll(n)

SpecRegistry == InitRegistry /\ [][NextRegistry]_vars

\* ----------------------------------------------------------------- claims
\* s + n modulo 2^32, on the two halves
AddN(s, n) ==
    LET lo == s[2] + n
    IN  << (s[1] + (lo \div U16)) % U16, lo % U16 >>

\* the payload a caller finds in the working buffer after an Ok read: what
\* follows the length-field slot and the padding_length byte
Delivered == SubSeq(rbuf.buffer, PACKET_LENGTH_LEN + PADDING_LENGTH_LEN + 1,
                    rres.n)

\* C1: each direction's counter is its starting value plus the number of
\* packets completed (writes that returned, reads that returned Ok), modulo
\* 2^32; reads that return an error, and every other step, add nothing.
C1_SeqnCountsPackets ==
    /\ wbuf.seqn = AddN(start, nwrites)
    /\ rbuf.seqn = AddN(start, nok)

\* an Ok read was followed by a read that returned an error
C1_Witness ==
    /\ nwrites >= 1
    /\ nok >= 1
    /\ rres.kind = "err"

\* C2: when the stream holds exactly what write produced and both ends
\* started from the same counter, no read fails, the i-th Ok read delivers
\* the i-th payload written, and both counters have advanced by one per
\* packet.
C2_RoundTripInOrder ==
    clean =>
        /\ rres.kind # "err"
        /\ rres.kind = "ok" => expected = << Delivered >>
        /\ nok + Len(inflight) = nwrites
        /\ rbuf.seqn = AddN(start, nok)
        /\ wbuf.seqn = AddN(start, nwrites)

\* two payloads, the second not empty, were written under the keyed codec and
\* read back
C2_Witness ==
    /\ codec = "aead"
    /\ clean
    /\ nwrites = 2
    /\ nok = 2
    /\ rres.kind = "ok"
    /\ Delivered # << >>

\* C3: read returns Ok only after open succeeded for that packet, open having
\* been handed the starting counter plus the number of earlier Ok reads; when
\* open fails read returns the error, no count, and the counter stays.
C3_OkOnlyAfterOpen ==
    /\ rres.kind = "ok" =>
          /\ opened.called
          /\ opened.ok
          /\ opened.seqn = AddN(start, nok - 1)
    /\ (opened.called /\ ~opened.ok) =>
          /\ rres = [kind |-> "err", n |-> 0, err |-> "open"]
          /\ opened.seqn = AddN(start, nok)
          /\ rbuf.seqn = opened.seqn

\* open failed on the second packet, after a first Ok read
C3_Witness ==
    /\ opened.called
    /\ ~opened.ok
    /\ nok = 1

\* C4: a write that returns appends 4 + 1 + len(payload) + padding_length +
\* tag_len bytes; seal is handed, with the counter held before the increment,
\* the first 4 + packet_length of them as plaintext (big-endian packet_length
\* = 1 + len(payload) + padding_length, the padding_length byte, the payload,
\* the padding) and the remaining tag_len bytes as tag output; what the
\* buffer gains is seal's ciphertext and tag.
C4_WriteLayout ==
    [][nwrites' = nwrites + 1 =>
        LET payload == sealed'.payload
            pad == sealed'.padding
            region == sealed'.plaintext
            appended == SubSeq(wbuf'.buffer, Len(wbuf.buffer) + 1,
                               Len(wbuf'.buffer))
            s == Seal(codec, wbuf.seqn, region)
        IN  /\ pad \in PaddingChoices(codec, payload)
            /\ Len(appended) = 4 + 1 + Len(payload) + pad + TagLen(codec)
            /\ Len(region) = 4 + 1 + Len(payload) + pad
            /\ ReadU32BE(SubSeq(region, 1, 4)) = 1 + Len(payload) + pad
            /\ region[5] = pad
            /\ SubSeq(region, 6, 5 + Len(payload)) = payload
            /\ sealed'.offset = Len(wbuf.buffer)
            /\ sealed'.taglen = TagLen(codec)
            /\ sealed'.seqn = wbuf.seqn
            /\ appended = s.ct \o s.tag
            /\ codec = "clear" => appended = region]_vars

\* a second packet, with a payload, was appended behind an unflushed first
C4_Witness ==
    /\ nwrites = 2
    /\ sealed.payload # << >>
    /\ sealed.offset > 0

\* C5: however the transport splits the bytes, a call that starts a packet and
\* reaches open has taken exactly 4 + L + tag_len bytes from the stream, has
\* handed them to open in stream order, each once, and its result is the one
\* those bytes give when they arrive at once.
C5_SplitDelivery ==
    (fresh /\ opened.called) =>
        LET len4 == SubSeq(consumed, 1, PACKET_LENGTH_LEN)
            L == ReadU32BE(DecryptPacketLength(codec, opened.seqn, len4))
            cut == Len(consumed) - TagLen(codec)
            o == Open(codec, opened.seqn, SubSeq(consumed, 1, cut),
                      SubSeq(consumed, cut + 1, Len(consumed)))
        IN  /\ Len(consumed) = 4 + L + TagLen(codec)
            /\ opened.ct \o opened.tag = consumed
            /\ rres.kind = (IF Outcome(o) = "ok" THEN "ok" ELSE "err")
            /\ rres.kind = "ok" =>
                  /\ rres.n = 4 + Len(o.pt) - PaddingOf(o.pt)
                  /\ rbuf.buffer = SubSeq(o.buf, 1, rres.n)

\* a packet was read with both read_exact calls left pending at least once
C5_Witness ==
    /\ fresh
    /\ opened.called
    /\ rres.kind = "ok"
    /\ susp.len
    /\ susp.body

\* C6: when the padding_length byte of the opened plaintext exceeds the
\* plaintext's length, read returns an error, no count, leaves the buffer at
\* its length and does not advance the counter.
C6_PaddingTooLong ==
    (opened.called /\ opened.ok /\ PaddingOf(opened.pt) > Len(opened.pt)) =>
        /\ rres = [kind |-> "err", n |-> 0, err |-> "IndexOutOfBounds"]
        /\ rbuf.seqn = opened.seqn
        /\ rbuf.seqn = AddN(start, nok)
        /\ Len(rbuf.buffer) = Len(opened.ct) + Len(opened.tag)

\* open succeeded on a plaintext whose first byte exceeds its length
C6_Witness ==
    /\ opened.called
    /\ opened.ok
    /\ PaddingOf(opened.pt) > Len(opened.pt)

\* C7: every Ok read has 1 + padding_length <= len(plaintext), and delivers
\* the plaintext without its first byte and its last padding_length bytes.
C7_PayloadIsPlaintextSansPadding ==
    rres.kind = "ok" =>
        /\ 1 + PaddingOf(opened.pt) <= Len(opened.pt)
        /\ Delivered = SubSeq(opened.pt, 2, Len(opened.pt) - PaddingOf(opened.pt))

\* C8 as stated: the count of an Ok read is len(payload) + 4 and the length
\* of the working buffer.
C8_CountIsPayloadPlus4 ==
    rres.kind = "ok" =>
        /\ rres.n = Len(Delivered) + 4
        /\ rres.n = Len(rbuf.buffer)

\* C8 amended: the count of an Ok read is 4 + len(plaintext) - padding_length
\* (the length-field slot, the padding_length byte and the payload, that is
\* len(payload) + 5 whenever 1 + padding_length <= len(plaintext)), and it is
\* the length of the working buffer.
C8_CountIsSlotFieldPayload ==
    rres.kind = "ok" =>
        /\ rres.n = 4 + Len(opened.pt) - PaddingOf(opened.pt)
        /\ rres.n = Len(rbuf.buffer)
        /\ 1 + PaddingOf(opened.pt) <= Len(opened.pt) =>
              rres.n = Len(Delivered) + 5

\* an Ok read delivered a payload of one byte in front of padding
C8_Witness ==
    /\ rres.kind = "ok"
    /\ Len(Delivered) = 1
    /\ PaddingOf(opened.pt) > 0

\* C9: at counter 2^32 - 1 a write that returns, and a read that returns Ok,
\* leave the counter at 0; the wrap stops neither: such a write panics only
\* on one of its two assertions, and such a read whose packet opens and whose
\* padding fits returns Ok.
C9_Wraparound ==
    [][/\ (wbuf.seqn = U32Max /\ nwrites' = nwrites + 1) =>
              wbuf'.seqn = U32Zero
       /\ (wbuf.seqn = U32Max /\ wstatus' # wstatus) =>
              /\ wstatus' = "panicked: padding_length"
              /\ wbuf'.seqn = U32Max
       /\ (rbuf.seqn = U32Max /\ nok' = nok + 1) =>
              rbuf'.seqn = U32Zero
       /\ (rbuf.seqn = U32Max /\ ~opened.called /\ opened'.called
              /\ opened'.ok /\ PaddingOf(opened'.pt) <= Len(opened'.pt)) =>
              /\ rres'.kind = "ok"
              /\ rbuf'.seqn = U32Zero]_vars

\* both directions have processed the packet numbered 2^32 - 1
C9_Witness ==
    /\ sealed.seqn = U32Max
    /\ wbuf.seqn = U32Zero
    /\ opened.seqn = U32Max
    /\ rres.kind = "ok"
    /\ rbuf.seqn = U32Zero

\* C10: after an Ok read buffer.len is 0; the next call then starts with the
\* length field, and when it returns Ok the working buffer holds that length
\* field (as received or decrypted) and, behind it, only plaintext of the
\* packet it took from the stream, nothing of the packet before.
C10_BackToLengthField ==
    /\ [](rres.kind = "ok" => (rbuf.len = 0 /\ pc = "idle"))
    /\ [][(rres.kind = "ok" /\ pc' # pc) =>
              (pc' = "len" /\ fresh' /\ consumed' = << >>)]_vars
    /\ []((rres.kind = "ok" /\ fresh) =>
              /\ SubSeq(rbuf.buffer, 1, 4) \in
                    {SubSeq(consumed, 1, 4),
                     DecryptPacketLength(codec, opened.seqn, SubSeq(consumed, 1, 4))}
              /\ opened.ct \o opened.tag = consumed
              /\ SubSeq(rbuf.buffer, 5, Len(rbuf.buffer))
                    = SubSeq(opened.pt, 1, rres.n - 4))

\* a second Ok read, of a packet shorter than the first
C10_Witness ==
    /\ nok = 2
    /\ rres.kind = "ok"
    /\ fresh
    /\ Len(consumed) < 16

\* C11: when read fails because open reports a tag mismatch, the working
\* buffer holds no byte of the failed packet afterwards: it is empty.
C11_FailedPacketDiscarded ==
    (pc = "idle" /\ opened.called /\ ~opened.ok) => rbuf.buffer = << >>

\* C12: the two directions are independent. A step that changes the outbound
\* buffer or the record of seal changes nothing of the reader (buffer,
\* position, partial reads, result), a step of the reader changes nothing of
\* the writer, and in every interleaving each direction numbers its packets
\* with its own counter: the k-th write seals with start + k - 1, the read
\* after k Ok reads opens with start + k, whatever the other direction did.
C12_DirectionsIndependent ==
    /\ [][(wvars' # wvars) => UNCHANGED rvars]_vars
    /\ [][(rvars' # rvars) => UNCHANGED wvars]_vars
    /\ [](sealed.called => sealed.seqn = AddN(start, nwrites - 1))
    /\ [](opened.called =>
             opened.seqn = AddN(start, IF rres.kind = "ok" THEN nok - 1 ELSE nok))
    /\ [](wbuf.seqn = AddN(start, nwrites) /\ rbuf.seqn = AddN(start, nok))

\* the reader has opened its first packet with its own counter while the
\* writer, two packets ahead, holds its second packet unsent
C12_Witness ==
    /\ nwrites = 2
    /\ sealed.offset = 0
    /\ wbuf.buffer # << >>
    /\ opened.called
    /\ nok = 1
    /\ rres.kind = "ok"

\* C13: a read whose declared (decrypted) packet length is below
\* MINIMUM_PACKET_LEN - 4, declared length 0 included, fails and delivers
\* nothing: no read returns Ok for such a packet.
C13_ShortLengthRejected ==
    (opened.called /\ rres.kind = "ok") =>
        Len(opened.ct) - PACKET_LENGTH_LEN >= MINIMUM_PACKET_LEN - PACKET_LENGTH_LEN

RegisteredNames(feature) ==
    {CLEAR, NONE, AES_128_CTR, AES_192_CTR, AES_256_CTR}
        \cup (IF feature = "rs-crypto" THEN {AES_256_GCM, CHACHA20_POLY1305}
              ELSE {})

\* C15: CIPHERS is built once and never changes afterwards: once built, the
\* map holds exactly the registered names, "clear" and "none" both map to the
\* no-op descriptor _CLEAR, no step changes it any more, and every lookup
\* answers from it: a registered name yields its descriptor, an unregistered
\* name yields none.
C15_RegistryImmutable ==
    /\ [](ciphers.built =>
             /\ DOMAIN ciphers.map = RegisteredNames(build)
             /\ ciphers.map[CLEAR] = "_CLEAR"
             /\ ciphers.map[NONE] = ciphers.map[CLEAR])
    /\ [](got.called =>
             /\ ciphers.built
             /\ got.hit <=> got.name \in RegisteredNames(build)
             /\ got.hit => got.desc = ciphers.map[got.name]
             /\ ~got.hit => got.desc = "")
    /\ [][ciphers.built => ciphers' = ciphers]_vars
    /\ [][(got' # got /\ got.called /\ got'.name = got.name) =>
             got'.desc = got.desc /\ got'.hit = got.hit]_vars

\* after the registry was built and a packet was written and read, a lookup
\* of a name that is not registered found nothing
C15_Witness ==
    /\ ciphers.built
    /\ got.called
    /\ got.name = "3des-cbc"
    /\ ~got.hit
    /\ nok = 1

\* C19: write only appends. A step of write, completed or aborted, leaves
\* every byte the buffer held in place and buffer.len alone; a completed write
\* hands seal a region that starts where the buffer ended, adds exactly
\* len(payload) to buffer.bytes and seals with start + i for the i-th packet
\* (counted from 0). After two writes the unsent buffer is the first packet,
\* which opens under start to the first payload, followed by the second,
\* sealed under start + 1.
C19_WriteOnlyAppends ==
    /\ [][(wvars' # wvars /\ stream' = stream) =>
             /\ Len(wbuf'.buffer) >= Len(wbuf.buffer)
             /\ SubSeq(wbuf'.buffer, 1, Len(wbuf.buffer)) = wbuf.buffer
             /\ wbuf'.len = wbuf.len]_vars
    /\ [][(nwrites' = nwrites + 1) =>
             /\ sealed'.offset = Len(wbuf.buffer)
             /\ Len(wbuf'.buffer) = sealed'.offset + Len(sealed'.plaintext)
                                       + sealed'.taglen
             /\ wbuf'.bytes = wbuf.bytes + Len(sealed'.payload)
             /\ sealed'.seqn = AddN(start, nwrites)]_vars
    /\ []((nwrites = 2 /\ sealed.offset > 0 /\ wbuf.buffer # << >> /\ nok = 0
              /\ wstatus = "ok" /\ Len(inflight) = 2) =>
             LET t == TagLen(codec)
                 off == sealed.offset
                 first == SubSeq(wbuf.buffer, 1, off)
                 second == SubSeq(wbuf.buffer, off + 1, Len(wbuf.buffer))
                 o == Open(codec, start, SubSeq(first, 1, off - t),
                           SubSeq(first, off - t + 1, off))
                 s == Seal(codec, AddN(start, 1), sealed.plaintext)
             IN  /\ o.ok
                 /\ SubSeq(o.pt, 2, Len(o.pt) - o.pt[1]) = inflight[1]
                 /\ second = s.ct \o s.tag
                 /\ sealed.payload = inflight[2]
                 /\ wbuf.bytes = Len(inflight[1]) + Len(inflight[2]))

\* two packets with payloads of different lengths sit unsent in the buffer
C19_Witness ==
    /\ nwrites = 2
    /\ sealed.offset > 0
    /\ wbuf.buffer # << >>
    /\ nok = 0
    /\ Len(inflight) = 2
    /\ Len(inflight[1]) # Len(inflight[2])

\* C18: a read that fails in open or in the padding check leaves the sequence
\* counter and buffer.len as they were: the counter is still the one open was
\* given and buffer.len is still the body length of the failed packet, not 0.
\* The next call on the same buffer therefore starts at the body: it reads no
\* length field, keeps buffer.len and the counter, and when it reaches open it
\* has taken exactly buffer.len further bytes from the stream and calls open
\* with the same sequence number as the failed call.
C18_FailedReadStaysInBody ==
    /\ []((rres.kind = "err" /\ rres.err \in {"open", "IndexOutOfBounds"}) =>
             /\ opened.called
             /\ rbuf.seqn = opened.seqn
             /\ rbuf.len = Len(opened.ct) + Len(opened.tag) - PACKET_LENGTH_LEN
             /\ rbuf.len > 0
             /\ pc = "idle")
    /\ [][(rres.kind = "err" /\ rres.err \in {"open", "IndexOutOfBounds"}
              /\ pc' # pc) =>
             /\ pc' = "body"
             /\ ~fresh'
             /\ stream' = stream
             /\ rbuf'.len = rbuf.len
             /\ rbuf'.seqn = rbuf.seqn]_vars
    /\ [][(pc = "body" /\ ~fresh /\ opened'.called) =>
             /\ opened'.seqn = rbuf.seqn
             /\ Len(consumed') = rbuf.len
             /\ SubSeq(opened'.ct \o opened'.tag, PACKET_LENGTH_LEN + 1,
                       PACKET_LENGTH_LEN + rbuf.len) = consumed']_vars

\* after a failed open, with no transport error in the run, a second call has
\* read a body of the same length and reached open with the same counter
C18_Witness ==
    /\ ~fresh
    /\ opened.called
    /\ nio = 0
    /\ nok = 0
    /\ opened.seqn = start
    /\ Len(consumed) = Len(opened.ct) + Len(opened.tag) - PACKET_LENGTH_LEN

\* C17: decrypt_packet_length is called exactly once per packet, with the
\* sequence number open later receives. The calls so far are the packets
\* delivered plus the one in progress; a call is made only by a read entered
\* with buffer.len = 0, with the reader's counter; a read entered with
\* buffer.len # 0 takes no length field from the stream and makes no such
\* call, keeps buffer.len and the counter, and when its body is complete it has
\* read exactly buffer.len bytes and hands open the unchanged counter, the one
\* decrypt_packet_length had.
C17_LengthDecryptedOncePerPacket ==
    /\ [](dpl.calls = nok + (IF rbuf.len # 0 THEN 1 ELSE 0))
    /\ [](opened.called => (dpl.calls >= 1 /\ opened.seqn = dpl.seqn))
    /\ [][(dpl' # dpl) =>
             /\ fresh
             /\ pc = "len"
             /\ rbuf.len = 0
             /\ dpl'.calls = dpl.calls + 1
             /\ dpl'.seqn = rbuf.seqn]_vars
    /\ [][(pc = "idle" /\ pc' # "idle" /\ rbuf.len # 0) =>
             /\ pc' = "body"
             /\ stream' = stream
             /\ dpl' = dpl
             /\ rbuf'.len = rbuf.len
             /\ rbuf'.seqn = rbuf.seqn]_vars
    /\ [][(pc = "body" /\ opened'.called) =>
             /\ opened'.seqn = rbuf.seqn
             /\ opened'.seqn = dpl.seqn
             /\ Len(opened'.ct) + Len(opened'.tag) = rbuf.len + PACKET_LENGTH_LEN
             /\ ~fresh => (Len(consumed') = rbuf.len /\ dpl' = dpl)]_vars

\* a call that was abandoned right after the length field; the next call
\* read the whole body and open accepted it under the same sequence number
C17_Witness ==
    /\ ~fresh
    /\ opened.called
    /\ opened.ok
    /\ rres.kind = "ok"
    /\ nio = 1
    /\ dpl.calls = 1
    /\ codec = "aead"

\* C16 as stated: a call that follows a read abandoned in the body, after some
\* body bytes were taken, resumes it: the partial byte count survives, so the
\* bytes of the abandoned call still count and stay in place before the bytes
\* the new call takes.
C16_ResumesAfterAbandon ==
    (pc = "body" /\ ~fresh /\ lost # << >>) =>
        /\ filled = Len(lost) + Len(consumed)
        /\ SubSeq(rbuf.buffer, PACKET_LENGTH_LEN + 1, PACKET_LENGTH_LEN + filled)
              = lost \o consumed

\* C16, amended: of a read abandoned in the body only the resolved target
\* length survives. Abandoning changes nothing of the buffer (buffer.len, the
\* counter and the bytes stay) and takes nothing back from the stream; the
\* partial byte count is gone. The next call starts the body again at
\* buffer[4..]: its count is the bytes it took itself, they overwrite the body
\* from its first byte, and when it reaches open it has taken buffer.len
\* further bytes and hands open the stored length field followed by those
\* bytes only.
C16_AbandonedBodyRestarts ==
    /\ [][(pc \in {"len", "body"} /\ pc' = "idle"
              /\ rres'.err \in {"io", "cancelled"}) =>
             /\ rbuf' = rbuf
             /\ stream' = stream
             /\ filled' = 0]_vars
    /\ []((pc = "body" /\ ~fresh) =>
             /\ rbuf.len # 0
             /\ Len(rbuf.buffer) = rbuf.len + PACKET_LENGTH_LEN
             /\ filled = Len(consumed)
             /\ SubSeq(rbuf.buffer, PACKET_LENGTH_LEN + 1,
                       PACKET_LENGTH_LEN + filled) = consumed)
    /\ [][(pc = "body" /\ ~fresh /\ opened'.called) =>
             /\ Len(consumed') = rbuf.len
             /\ opened'.ct \o opened'.tag
                   = SubSeq(rbuf.buffer, 1, PACKET_LENGTH_LEN) \o consumed']_vars

\* a call abandoned after some body bytes, and the next call a few bytes into
\* the body, fewer than the abandoned call had taken
C16_Witness ==
    /\ pc = "body"
    /\ ~fresh
    /\ lost # << >>
    /\ filled > 0
    /\ filled < Len(lost)

====
